---- MODULE Spec2Model ----
(***************************************************************************)
(* Model of the buzzline consumers: the real-time file tailer of           *)
(* consumers/consumer_kabore.py (tail_file_realtime) writing through the   *)
(* SQLite helpers of consumers/sqlite_consumer_case.py (init_db,           *)
(* insert_message), next to a concurrent producer that appends to,         *)
(* truncates and recreates the live file.                                  *)
(*                                                                         *)
(* Text is a sequence of one-byte characters.  The characters of the       *)
(* model are "{", "}", the payload character "a" (it abbreviates the       *)
(* member text "message":"a" of a JSON object), the junk character "x",    *)
(* the blank " " and the two line-terminator bytes LF and CR.  Every       *)
(* character is one byte in UTF-8, so character counts are byte counts.    *)
(***************************************************************************)
EXTENDS Integers, Sequences, FiniteSets, TLC

LF == "LF"
CR == "CR"

\* ------------------------------------------------------------------------
\* Bounds of the model
\* ------------------------------------------------------------------------
MaxLines == 2
MaxTrunc == 1
MaxRaise == 1
MaxCalls == 3
LongLines == 4
LoopLines == 1
MaxRecords == 4
MaxConns == 3

\* ------------------------------------------------------------------------
\* Text helpers (Python str / TextIOWrapper behaviour)
\* ------------------------------------------------------------------------

\* open(..., "r") with newline=None: universal newlines.  "\r\n" and a lone
\* "\r" are both handed to the reader as "\n"; read() decodes to the end of
\* the file with final=True, so a "\r" that is the last byte is handed over
\* as "\n" too.
RECURSIVE Translate(_)
Translate(bytes) ==
    IF bytes = <<>> THEN <<>>
    ELSE IF Head(bytes) = CR
         THEN IF Len(bytes) >= 2 /\ bytes[2] = LF
              THEN <<LF>> \o Translate(SubSeq(bytes, 3, Len(bytes)))
              ELSE <<LF>> \o Translate(Tail(bytes))
         ELSE <<Head(bytes)>> \o Translate(Tail(bytes))

\* f.seek(pos); f.read(): the text from byte pos to the end of the file
\* (empty when pos is at or past the end).
ReadFrom(bytes, pos) ==
    IF pos >= Len(bytes) THEN <<>>
    ELSE Translate(SubSeq(bytes, pos + 1, Len(bytes)))

\* str.splitlines(): split at "\n", "\r" and "\r\n", terminators dropped, no
\* empty last element when the text ends with a terminator.
RECURSIVE SplitAcc(_, _, _)
SplitAcc(text, cur, acc) ==
    IF text = <<>>
    THEN IF cur = <<>> THEN acc ELSE Append(acc, cur)
    ELSE IF Head(text) = LF
         THEN SplitAcc(Tail(text), <<>>, Append(acc, cur))
         ELSE IF Head(text) = CR
              THEN IF Len(text) >= 2 /\ text[2] = LF
                   THEN SplitAcc(SubSeq(text, 3, Len(text)), <<>>, Append(acc, cur))
                   ELSE SplitAcc(Tail(text), <<>>, Append(acc, cur))
              ELSE SplitAcc(Tail(text), Append(cur, Head(text)), acc)

splitlines(text) == SplitAcc(text, <<>>, <<>>)

\* new_data.endswith("\n") or new_data.endswith("\r")
EndsWithTerminator(text) ==
    text # <<>> /\ text[Len(text)] \in {LF, CR}

Whitespace == {" ", LF, CR}

\* str.strip()
RECURSIVE LStrip(_)
LStrip(s) ==
    IF s # <<>> /\ Head(s) \in Whitespace THEN LStrip(Tail(s)) ELSE s

RECURSIVE RStrip(_)
RStrip(s) ==
    IF s # <<>> /\ s[Len(s)] \in Whitespace
    THEN RStrip(SubSeq(s, 1, Len(s) - 1)) ELSE s

strip(s) == RStrip(LStrip(s))

\* "\n".join(parts) + "\n"
RECURSIVE JoinLines(_)
JoinLines(parts) ==
    IF parts = <<>> THEN <<>>
    ELSE Head(parts) \o <<LF>> \o JoinLines(Tail(parts))

consumed_text(lines, complete_count) ==
    IF complete_count = 0 THEN <<LF>>
    ELSE JoinLines(SubSeq(lines, 1, complete_count))

\* len(text.encode("utf-8", errors="ignore")): every character of the model
\* is one byte.
EncodedLen(text) == Len(text)

\* ------------------------------------------------------------------------
\* Parsed messages and normalisation (consumer_kabore.process_message)
\* ------------------------------------------------------------------------

Keys == {"message", "author", "timestamp", "category", "sentiment",
         "keyword_mentioned", "message_length"}

\* A JSON value: k is its kind ("absent" for a key the object does not
\* carry, "null", "str", "int", "float"), s its text when it is a string,
\* n its number when it is one: an int as itself, a float in hundredths.
Val(k, s, n) == [k |-> k, s |-> s, n |-> n]
Absent == Val("absent", <<>>, 0)
Null == Val("null", <<>>, 0)
StrVal(s) == Val("str", s, 0)
IntVal(n) == Val("int", <<>>, n)
FloatVal(h) == Val("float", <<>>, h)

EmptyObject == [f \in Keys |-> Absent]

\* The value None, and a dict/record wrapped so that both compare.
NoneVal == [none |-> TRUE, v |-> EmptyObject]
Some(v) == [none |-> FALSE, v |-> v]

\* json.loads(s) for the object texts of the model: "{}" is the empty
\* object, "{a}" the object {"message": "a"}; any other text raises, which
\* the caller turns into None.
json_loads(s) ==
    IF s = <<"{", "}">> THEN Some(EmptyObject)
    ELSE IF s = <<"{", "a", "}">>
         THEN Some([EmptyObject EXCEPT !["message"] = StrVal(<<"a">>)])
         ELSE NoneVal

_safe_json_loads(line) ==
    LET s == strip(line) IN
    IF s = <<>> THEN NoneVal
    ELSE IF ~(s[1] = "{" /\ s[Len(s)] = "}") THEN NoneVal
         ELSE json_loads(s)

Digits == {"0", "1", "2", "3", "4", "5", "6", "7", "8", "9"}

DigitVal(c) ==
    CASE c = "0" -> 0 [] c = "1" -> 1 [] c = "2" -> 2 [] c = "3" -> 3
      [] c = "4" -> 4 [] c = "5" -> 5 [] c = "6" -> 6 [] c = "7" -> 7
      [] c = "8" -> 8 [] c = "9" -> 9

\* The decimal texts int() and float() accept here: digits, blanks around.
IsNumberText(s) ==
    LET t == strip(s) IN t # <<>> /\ \A i \in 1..Len(t) : t[i] \in Digits

RECURSIVE DigitsValue(_)
DigitsValue(t) ==
    IF t = <<>> THEN 0
    ELSE 10 * DigitsValue(SubSeq(t, 1, Len(t) - 1)) + DigitVal(t[Len(t)])

\* bool(v) is False: what `v or ""` replaces by "".
Falsy(v) ==
    \/ v.k \in {"absent", "null"}
    \/ v.k = "str" /\ v.s = <<>>
    \/ v.k \in {"int", "float"} /\ v.n = 0

\* (msg.get(key) or "").strip() raises AttributeError on a number.
TextRaises(v) == ~Falsy(v) /\ v.k # "str"
TextOf(v) == IF Falsy(v) \/ v.k # "str" THEN <<>> ELSE strip(v.s)

\* float(val), in hundredths; the default when float() raises.
_coerce_float(v, default) ==
    CASE v.k = "float" -> v.n
      [] v.k = "int" -> 100 * v.n
      [] v.k = "str" -> IF IsNumberText(v.s) THEN 100 * DigitsValue(strip(v.s))
                        ELSE default
      [] OTHER -> default

\* int(val): truncation toward zero of a float; the default when it raises.
_coerce_int(v, default) ==
    CASE v.k = "int" -> v.n
      [] v.k = "float" -> IF v.n >= 0 THEN v.n \div 100 ELSE -((-v.n) \div 100)
      [] v.k = "str" -> IF IsNumberText(v.s) THEN DigitsValue(strip(v.s))
                        ELSE default
      [] OTHER -> default

\* A process_message that copies the text fields as they come.
process_message_copies(msg) ==
    LET field(v) == IF v.k = "absent" THEN Null ELSE v
        raw_message == TextOf(msg["message"])
        message_length == msg["message_length"]
        ml0 == IF message_length.k = "int" THEN message_length.n
               ELSE _coerce_int(message_length, 0)
        ml == IF ml0 <= 0 /\ raw_message # <<>> THEN Len(raw_message) ELSE ml0
    IN Some([message |-> field(msg["message"]),
             author |-> field(msg["author"]),
             timestamp |-> field(msg["timestamp"]),
             category |-> field(msg["category"]),
             sentiment |-> FloatVal(_coerce_float(msg["sentiment"], 0)),
             keyword_mentioned |-> field(msg["keyword_mentioned"]),
             message_length |-> IntVal(ml)])

\* A process_message that calls float() on the sentiment unguarded.
process_message_float(msg) ==
    IF \/ \E f \in {"message", "author", "timestamp", "category", "keyword_mentioned"} :
              TextRaises(msg[f])
       \/ msg["sentiment"].k \in {"absent", "null"}
       \/ msg["sentiment"].k = "str" /\ ~IsNumberText(msg["sentiment"].s)
    THEN NoneVal
    ELSE
      LET raw_message == TextOf(msg["message"])
          message_length == msg["message_length"]
          ml0 == IF message_length.k = "int" THEN message_length.n
                 ELSE _coerce_int(message_length, 0)
          ml == IF ml0 <= 0 /\ raw_message # <<>> THEN Len(raw_message) ELSE ml0
      IN Some([message |-> StrVal(raw_message),
               author |-> StrVal(TextOf(msg["author"])),
               timestamp |-> StrVal(TextOf(msg["timestamp"])),
               category |-> StrVal(TextOf(msg["category"])),
               sentiment |-> FloatVal(_coerce_float(msg["sentiment"], 0)),
               keyword_mentioned |-> StrVal(TextOf(msg["keyword_mentioned"])),
               message_length |-> IntVal(ml)])

\* Lines 69-113.  A field that is a number makes .strip() raise, which the
\* function turns into None.
process_message(msg) ==
    IF \E f \in {"message", "author", "timestamp", "category", "keyword_mentioned"} :
           TextRaises(msg[f])
    THEN NoneVal
    ELSE
      LET raw_message == TextOf(msg["message"])
          message_length == msg["message_length"]
          ml0 == IF message_length.k = "int" THEN message_length.n
                 ELSE _coerce_int(message_length, 0)
          ml == IF ml0 <= 0 /\ raw_message # <<>> THEN Len(raw_message) ELSE ml0
      IN Some([message |-> StrVal(raw_message),
               author |-> StrVal(TextOf(msg["author"])),
               timestamp |-> StrVal(TextOf(msg["timestamp"])),
               category |-> StrVal(TextOf(msg["category"])),
               sentiment |-> FloatVal(_coerce_float(msg["sentiment"], 0)),
               keyword_mentioned |-> StrVal(TextOf(msg["keyword_mentioned"])),
               message_length |-> IntVal(ml)])

\* ------------------------------------------------------------------------
\* The SQLite store (consumers/sqlite_consumer_case.py)
\* ------------------------------------------------------------------------

max_retries == 6
\* base_sleep = 0.05 s, in milliseconds
base_sleep == 50

\* What one execution of a statement against the database file gives: it is
\* accepted, or it raises an exception of class cls whose lower-cased message
\* holds the words of text.
Accepted == [cls |-> "none", text |-> {}]
ErrLocked == [cls |-> "OperationalError", text |-> {"database", "is", "locked"}]
ErrBusy == [cls |-> "OperationalError", text |-> {"database", "is", "busy"}]
ErrNoTable == [cls |-> "OperationalError", text |-> {"no", "such", "table"}]
ErrOther == [cls |-> "DatabaseError", text |-> {"file", "is", "not", "a", "database"}]
\* DuckDB (duckdb_consumer_case.py): the file is held by another process; the
\* table is missing.
ErrInUse == [cls |-> "IOException",
             text |-> {"could", "not", "set", "lock", "on", "file", "another process"}]
ErrCatalog == [cls |-> "CatalogException", text |-> {"table", "does", "not", "exist"}]

\* The answers the store can give to the INSERT: without the table the
\* statement cannot be accepted.
InsertAnswers(eng, tbl) ==
    IF eng = "sqlite"
    THEN IF tbl THEN {Accepted, ErrLocked, ErrBusy, ErrOther}
         ELSE {ErrLocked, ErrBusy, ErrNoTable, ErrOther}
    ELSE IF tbl THEN {Accepted, ErrInUse, ErrBusy, ErrOther}
         ELSE {ErrInUse, ErrBusy, ErrCatalog, ErrOther}

\* A handler that takes every error of the store's class for a lock error.
IsLockErrorAnyError(eng, e) ==
    IF eng = "sqlite" THEN e.cls = "OperationalError" ELSE e.cls # "none"

\* sqlite: except sqlite3.OperationalError as e, "locked" in msg or "busy" in
\* msg.  duckdb: except Exception as e, any of four wordings in msg.
IsLockError(eng, e) ==
    IF eng = "sqlite"
    THEN e.cls = "OperationalError" /\ ("locked" \in e.text \/ "busy" \in e.text)
    ELSE e.cls # "none" /\
         e.text \cap {"locked", "busy", "another process", "database is in use"} # {}

\* Retry conditions one off: attempt < max_retries - 1, attempt <= max_retries.
ShouldRetryOneLess(eng, e, att) == IsLockError(eng, e) /\ att < max_retries - 1
ShouldRetryInclusive(eng, e, att) == IsLockError(eng, e) /\ att <= max_retries

\* A retry condition that allows twice the retries.
ShouldRetryTwice(eng, e, att) == IsLockError(eng, e) /\ att < 2 * max_retries

\* ... and attempt < max_retries
ShouldRetry(eng, e, att) == IsLockError(eng, e) /\ att < max_retries

\* sleep_for = base_sleep * (2 ** attempt)
RECURSIVE Pow2(_)
Pow2(n) == IF n = 0 THEN 1 ELSE 2 * Pow2(n - 1)
\* A delay that grows by base_sleep per retry.
sleep_for_linear(att) == base_sleep * (att + 1)

sleep_for(att) == base_sleep * Pow2(att)

\* dict.get(key, default)
get(message, key, default) ==
    IF message[key].k = "absent" THEN default ELSE message[key]

DigitText(d) ==
    CASE d = 0 -> "0" [] d = 1 -> "1" [] d = 2 -> "2" [] d = 3 -> "3"
      [] d = 4 -> "4" [] d = 5 -> "5" [] d = 6 -> "6" [] d = 7 -> "7"
      [] d = 8 -> "8" [] d = 9 -> "9"

RECURSIVE NatText(_)
NatText(n) ==
    IF n < 10 THEN <<DigitText(n)>>
    ELSE NatText(n \div 10) \o <<DigitText(n % 10)>>

\* str(value): the text itself, "None", the decimal text of an int, the
\* shortest text of a float (given in hundredths).
str(v) ==
    CASE v.k = "str" -> v.s
      [] v.k \in {"absent", "null"} -> <<"N", "o", "n", "e">>
      [] v.k = "int" ->
           IF v.n < 0 THEN <<"-">> \o NatText(-v.n) ELSE NatText(v.n)
      [] v.k = "float" ->
           LET a == IF v.n < 0 THEN -v.n ELSE v.n
               f == a % 100
           IN (IF v.n < 0 THEN <<"-">> ELSE <<>>)
              \o NatText(a \div 100) \o <<".">>
              \o (IF f % 10 = 0 THEN <<DigitText(f \div 10)>>
                  ELSE <<DigitText(f \div 10), DigitText(f % 10)>>)

\* float(value) and int(value) raise on None and on text that is no number.
ConversionRaises(v) ==
    \/ v.k \in {"absent", "null"}
    \/ v.k = "str" /\ ~IsNumberText(v.s)

\* payload = (str(message.get("message")), ..., float(message.get(
\* "sentiment", 0.0)), ..., int(message.get("message_length", 0))), built
\* before the retry loop: a conversion that raises is raised to the caller.
PayloadRaises(message) ==
    \/ ConversionRaises(get(message, "sentiment", FloatVal(0)))
    \/ ConversionRaises(get(message, "message_length", IntVal(0)))

\* Where no conversion raises, _coerce_float and _coerce_int are float() and
\* int().
Payload(message) ==
    [message |-> str(message.message),
     author |-> str(message.author),
     timestamp |-> str(message.timestamp),
     category |-> str(message.category),
     sentiment |-> _coerce_float(get(message, "sentiment", FloatVal(0)), 0),
     keyword_mentioned |-> str(message.keyword_mentioned),
     message_length |-> _coerce_int(get(message, "message_length", IntVal(0)), 0)]

NoPayload == Payload(process_message(EmptyObject).v)

\* An init_db that drops the table whatever recreate says.
init_db_always_drops(tbl, rws, recreate) == [table |-> TRUE, rows |-> <<>>]

\* init_db without an error: DROP TABLE IF EXISTS when recreate, then CREATE
\* TABLE IF NOT EXISTS.  The store is the pair table (it exists), rows.
init_db(tbl, rws, recreate) ==
    [table |-> TRUE,
     rows |-> IF recreate \/ ~tbl THEN <<>> ELSE rws]

\* init_db raising: before any statement ran, or (recreate) after the DROP,
\* which sqlite3 does not run inside a transaction.
init_db_failed(tbl, rws, dropped) ==
    IF dropped THEN [table |-> FALSE, rows |-> <<>>]
    ELSE [table |-> tbl, rows |-> rws]

\* ------------------------------------------------------------------------
\* State
\* ------------------------------------------------------------------------
VARIABLES
    exists,          \* the live file exists
    file,            \* its bytes
    pending,         \* bytes of the producer's current line not yet written
    eol,             \* the line terminator the producer writes
    nlines,          \* lines the producer has started
    ntrunc,          \* truncations so far
    pc,              \* where tail_file_realtime (or the self-test) stands
    last_pos,        \* tail_file_realtime: byte offset consumed so far
    file_size,       \* tail_file_realtime: size seen by the last stat()
    lines,           \* tail_file_realtime: new_data.splitlines()
    complete_count,  \* tail_file_realtime: lines of the batch to process
    i,               \* tail_file_realtime: lines of the batch handled
    ins_pc,          \* insert_message: idle, try, returned, raised
    attempt,         \* insert_message: retry counter
    payload,         \* insert_message: the row to write
    tries,           \* executions of the INSERT in this call
    sleeps,          \* the sleeps of this call, in milliseconds
    last_resp,       \* the store's answer to the latest INSERT
    rows0,           \* the rows when insert_message was entered
    engine,          \* the store module in use: "sqlite" or "duckdb"
    table,           \* the table streamed_messages exists
    rows,            \* its rows, in insertion order
    last_call,       \* the store function that completed last, its outcome
    nraise,          \* exceptions the loop has caught
    ncalls,          \* calls made by the self-test
    pm_msg,          \* process_message: its argument
    pm_result,       \* process_message: what it returned
    exit_code,       \* how the process ended; "running" until then
    epoch,           \* truncations the tailer has detected (and logged)
    fpos,            \* consume_messages_from_file: pos
    ftell,           \* consume_messages_from_file: offset of the open file f
    nrec,            \* consume_messages_from_kafka: records consumed
    handle,          \* f of `with live_path.open(...)`; consumer of consume_messages_from_kafka
    _CONNECTIONS,    \* duckdb_consumer_case: the cached connection of each path (0: none)
    connections,     \* the connections duckdb.connect has opened, in order
    conn             \* _get_conn: its latest call and what it returned

conn_vars == <<_CONNECTIONS, connections, conn>>

vars == <<exists, file, pending, eol, nlines, ntrunc, pc, last_pos, file_size,
          lines, complete_count, i, ins_pc, attempt, payload, tries, sleeps,
          last_resp, rows0, engine, table, rows, last_call, nraise, ncalls,
          pm_msg, conn_vars, pm_result, exit_code, epoch, fpos, ftell, nrec, handle>>

producer_vars == <<exists, file, pending, eol, nlines, ntrunc>>
tail_vars == <<last_pos, file_size, lines, complete_count, i>>
insert_vars == <<ins_pc, attempt, payload, tries, sleeps, last_resp, rows0>>
store_vars == <<engine, table, rows>>
aux_vars == <<pm_msg, conn_vars, pm_result, exit_code, epoch, fpos, ftell, nrec, handle>>

\* The store paths of the connection cache.
Paths == {"a.duckdb", "b.duckdb"}

\* No call of _get_conn yet.
NoConn == [db_path |-> "none", cached |-> 0, check |-> "none", opened |-> FALSE,
           result |-> 0]

NoCall == [op |-> "none", recreate |-> FALSE, result |-> "none"]
Call(op, recreate, result) == [op |-> op, recreate |-> recreate, result |-> result]

\* The lines the producer writes: blank, an empty object, an object with a
\* message, and text that is no object.
Contents == { <<>>, <<"{", "}">>, <<"{", "a", "}">>, <<"x">> }
Terminators == { <<LF>>, <<CR, LF>> }

InitCommon ==
    /\ last_pos = 0 /\ file_size = 0 /\ lines = <<>> /\ complete_count = 0
    /\ i = 0
    /\ ins_pc = "idle" /\ attempt = 0 /\ payload = NoPayload /\ tries = 0
    /\ sleeps = <<>> /\ last_resp = Accepted /\ rows0 = <<>>
    /\ last_call = NoCall /\ nraise = 0 /\ ncalls = 0
    /\ pm_result = NoneVal
    /\ exit_code = "running" /\ epoch = 0 /\ fpos = 0 /\ ftell = 0 /\ nrec = 0
    /\ handle = "none"
    /\ _CONNECTIONS = [db_path \in Paths |-> 0]
    /\ connections = <<>> /\ conn = NoConn

Init ==
    /\ exists = FALSE /\ file = <<>> /\ pending = <<>>
    /\ eol \in Terminators
    /\ nlines = 0 /\ ntrunc = 0
    /\ pc = "main"
    /\ engine = "sqlite"
    /\ table = FALSE /\ rows = <<>>
    /\ pm_msg = EmptyObject
    /\ InitCommon

\* ------------------------------------------------------------------------
\* The producer of the live file
\* ------------------------------------------------------------------------
others_of_producer ==
    <<pc, last_pos, file_size, lines, complete_count, i, ins_pc, attempt,
      payload, tries, sleeps, last_resp, rows0, engine, table, rows, last_call,
      nraise, ncalls, pm_msg, conn_vars, pm_result, exit_code, epoch, fpos,
      ftell, nrec, handle>>

CreateFile ==
    /\ ~exists
    /\ exists' = TRUE
    /\ UNCHANGED <<file, pending, eol, nlines, ntrunc>>
    /\ UNCHANGED others_of_producer

\* Start a line, one of at most max_lines, and write its first k bytes of
\* content and terminator.
AppendLineB(max_lines, contents) ==
    /\ exists /\ pending = <<>> /\ nlines < max_lines
    /\ \E c \in contents :
         LET full == c \o eol IN
         \E k \in 1..Len(full) :
            /\ file' = file \o SubSeq(full, 1, k)
            /\ pending' = SubSeq(full, k + 1, Len(full))
    /\ nlines' = nlines + 1
    /\ UNCHANGED <<exists, eol, ntrunc>>
    /\ UNCHANGED others_of_producer

AppendLine == AppendLineB(MaxLines, Contents)

AppendLineLoop == AppendLineB(LoopLines, Contents)

\* More lines, of fewer kinds.
AppendLineLong == AppendLineB(LongLines, Contents \ {<<"x">>})

\* Write k more bytes of the current line.
AppendRest ==
    /\ exists /\ pending # <<>>
    /\ \E k \in 1..Len(pending) :
         /\ file' = file \o SubSeq(pending, 1, k)
         /\ pending' = SubSeq(pending, k + 1, Len(pending))
    /\ UNCHANGED <<exists, eol, nlines, ntrunc>>
    /\ UNCHANGED others_of_producer

\* The file is removed (and may be created again): for a reader that comes
\* back, one more way of finding the file shorter than it was.
RemoveFile ==
    /\ exists /\ ntrunc < MaxTrunc
    /\ exists' = FALSE
    /\ file' = <<>> /\ pending' = <<>>
    /\ ntrunc' = ntrunc + 1
    /\ UNCHANGED <<eol, nlines>>
    /\ UNCHANGED others_of_producer

\* The file is truncated (reopened for writing); the producer starts over.
Truncate ==
    /\ exists /\ file # <<>> /\ ntrunc < MaxTrunc
    /\ file' = <<>> /\ pending' = <<>>
    /\ ntrunc' = ntrunc + 1
    /\ UNCHANGED <<exists, eol, nlines>>
    /\ UNCHANGED others_of_producer

\* ------------------------------------------------------------------------
\* insert_message (sqlite_consumer_case.py)
\* ------------------------------------------------------------------------

\* One pass of the while loop at retry counter att, the store answering r:
\* return after the commit, or sleep and retry, or raise.
InsertPass(eng, att, r) ==
    IF r = Accepted
    THEN [next |-> "returned", attempt |-> att, slept |-> <<>>, added |-> TRUE]
    ELSE IF ShouldRetry(eng, r, att)
         THEN [next |-> "try", attempt |-> att + 1,
               slept |-> <<sleep_for(att)>>, added |-> FALSE]
         ELSE [next |-> "raised", attempt |-> att, slept |-> <<>>, added |-> FALSE]

\* The whole call against the answers the store gives to its INSERTs, in
\* order: "returned" or "raised" (or "try" when the answers run out first).
RECURSIVE InsertRun(_, _, _)
InsertRun(eng, att, answers) ==
    IF answers = <<>> THEN "try"
    ELSE LET p == InsertPass(eng, att, Head(answers)) IN
         IF p.next = "try" THEN InsertRun(eng, p.attempt, Tail(answers))
         ELSE p.next

\* k lock errors, then a last answer.
AnswersOf(k, last) == [j \in 1..(k + 1) |-> IF j <= k THEN ErrBusy ELSE last]

\* The call as insert_message's caller sees it: how the runs that end, end.
insert_message(eng, tbl) ==
    { InsertRun(eng, 0, AnswersOf(k, last)) :
          k \in {0, 1, max_retries}, last \in InsertAnswers(eng, tbl) } \ {"try"}

\* insert_message's outcomes for each engine and state of the table, worked
\* out once.
insert_results ==
    [eng \in {"sqlite", "duckdb"} |-> [tbl \in BOOLEAN |-> insert_message(eng, tbl)]]

\* The call: payload built, attempt = 0.
EnterInsert(message) ==
    /\ ins_pc' = "try"
    /\ attempt' = 0
    /\ payload' = Payload(message)
    /\ tries' = 0
    /\ sleeps' = <<>>
    /\ last_resp' = Accepted
    /\ rows0' = rows

\* One pass of the while loop: connect, INSERT, commit.
InsertTry ==
    /\ ins_pc = "try"
    /\ \E r \in InsertAnswers(engine, table) :
         LET p == InsertPass(engine, attempt, r) IN
         /\ last_resp' = r
         /\ tries' = tries + 1
         /\ ins_pc' = p.next
         /\ attempt' = p.attempt
         /\ sleeps' = sleeps \o p.slept
         /\ rows' = IF p.added THEN Append(rows, payload) ELSE rows
    /\ UNCHANGED <<payload, rows0, engine, table, last_call, pc, nraise, ncalls>>
    /\ UNCHANGED producer_vars
    /\ UNCHANGED aux_vars
    /\ UNCHANGED tail_vars

\* ------------------------------------------------------------------------
\* tail_file_realtime (consumer_kabore.py)
\* ------------------------------------------------------------------------

\* main, lines 225-235: the configuration is read; when that raises, main
\* logs the error and returns.
MainReadConfig ==
    /\ pc = "main"
    /\ \E ok \in BOOLEAN :
         IF ok THEN pc' = "init" /\ UNCHANGED exit_code
         ELSE pc' = "exited" /\ exit_code' = "0"
    /\ UNCHANGED <<pm_msg, conn_vars, pm_result, epoch, fpos, ftell, nrec, handle>>
    /\ UNCHANGED <<last_call, nraise, ncalls>>
    /\ UNCHANGED tail_vars
    /\ UNCHANGED insert_vars
    /\ UNCHANGED store_vars
    /\ UNCHANGED producer_vars

\* Lines 146-161: init_db(sqlite_path); a failure is logged and the loop is
\* entered all the same; last_pos = 0.
TailInitDb ==
    /\ pc = "init"
    /\ \E ok \in BOOLEAN :
         LET st == IF ok THEN init_db(table, rows, FALSE)
                   ELSE init_db_failed(table, rows, FALSE) IN
         /\ table' = st.table
         /\ rows' = st.rows
         /\ last_call' = Call("init_db", FALSE, IF ok THEN "returned" ELSE "raised")
    /\ last_pos' = 0
    /\ pc' = "stat"
    /\ UNCHANGED <<file_size, lines, complete_count, i, engine, nraise, ncalls>>
    /\ UNCHANGED insert_vars
    /\ UNCHANGED producer_vars
    /\ UNCHANGED aux_vars

\* A poll that gives up when the file is not there.
PollAbsentFails ==
    /\ pc = "stat"
    /\ ~exists
    /\ pc' = "exited"
    /\ exit_code' = "1"
    /\ UNCHANGED <<pm_msg, conn_vars, pm_result, epoch, fpos, ftell, nrec, handle>>
    /\ UNCHANGED <<last_call, nraise, ncalls>>
    /\ UNCHANGED tail_vars
    /\ UNCHANGED insert_vars
    /\ UNCHANGED store_vars
    /\ UNCHANGED producer_vars

\* Lines 165-168: the file is not there: sleep, continue.
PollAbsent ==
    /\ pc = "stat"
    /\ ~exists
    /\ UNCHANGED vars

\* Lines 170-174: stat(); a size below last_pos resets last_pos.
Stat ==
    /\ pc = "stat"
    /\ exists
    /\ file_size' = Len(file)
    /\ last_pos' = IF Len(file) < last_pos THEN 0 ELSE last_pos
    /\ epoch' = IF Len(file) < last_pos THEN epoch + 1 ELSE epoch
    /\ pc' = "read"
    /\ UNCHANGED <<lines, complete_count, i, last_call, nraise, ncalls>>
    /\ UNCHANGED insert_vars
    /\ UNCHANGED store_vars
    /\ UNCHANGED producer_vars
    /\ UNCHANGED <<pm_msg, conn_vars, pm_result, exit_code, fpos, ftell, nrec, handle>>

\* Line 176 when the file was removed after the exists() and stat() of
\* lines 165-170: open raises FileNotFoundError, which except Exception
\* (210-212) logs.
ReadAbsent ==
    /\ pc = "read"
    /\ ~exists
    /\ nraise' = nraise + 1
    /\ pc' = "backoff"
    /\ UNCHANGED <<last_call, ncalls>>
    /\ UNCHANGED tail_vars
    /\ UNCHANGED insert_vars
    /\ UNCHANGED store_vars
    /\ UNCHANGED producer_vars
    /\ UNCHANGED aux_vars

\* A count that takes the last fragment for a line, terminated or not.
CompleteCountAll(new_data) == Len(splitlines(new_data))

\* has_trailing_newline, complete_count (lines 188-189)
CompleteCount(new_data) ==
    LET n == Len(splitlines(new_data)) IN
    IF EndsWithTerminator(new_data) THEN n
    ELSE IF n - 1 > 0 THEN n - 1 ELSE 0

\* Lines 176-189 (and 203-205): open, seek, read.  Nothing new, or no
\* complete line: sleep and poll again; else the batch is in hand.
Read ==
    /\ pc = "read"
    /\ exists
    /\ LET new_data == ReadFrom(file, last_pos) IN
       IF new_data = <<>> \/ CompleteCount(new_data) = 0
       THEN /\ pc' = "stat"
            /\ handle' = "closed"
            /\ UNCHANGED <<lines, complete_count, i>>
       ELSE /\ lines' = splitlines(new_data)
            /\ complete_count' = CompleteCount(new_data)
            /\ i' = 0
            /\ pc' = "loop"
            /\ handle' = "open"
    /\ UNCHANGED <<last_pos, file_size, last_call, nraise, ncalls>>
    /\ UNCHANGED insert_vars
    /\ UNCHANGED store_vars
    /\ UNCHANGED producer_vars
    /\ UNCHANGED <<pm_msg, conn_vars, pm_result, exit_code, epoch, fpos, ftell, nrec>>

\* A loop that, when insert_message raises, starts the batch over without
\* polling again.
HandleLineRestart(max_raise) ==
    /\ pc = "loop"
    /\ i < complete_count
    /\ \E msg_dict \in {_safe_json_loads(lines[i + 1])} :
       \E processed \in {process_message(msg_dict.v)} :
       IF msg_dict.none \/ processed.none
       THEN /\ i' = i + 1
            /\ UNCHANGED <<pc, lines, complete_count, rows, last_call, nraise, handle>>
       ELSE \E result \in insert_results[engine][table] :
              /\ last_call' = Call("insert_message", FALSE, result)
              /\ IF result = "returned"
                 THEN /\ rows' = Append(rows, Payload(processed.v))
                      /\ i' = i + 1
                      /\ UNCHANGED <<pc, lines, complete_count, nraise, handle>>
                 ELSE /\ nraise < max_raise \/ (~table /\ max_raise > 0)
                      /\ nraise' = IF nraise < max_raise THEN nraise + 1 ELSE nraise
                      /\ i' = 0
                      /\ UNCHANGED <<pc, lines, complete_count, rows, handle>>
    /\ UNCHANGED <<last_pos, file_size, engine, table, ncalls>>
    /\ UNCHANGED insert_vars
    /\ UNCHANGED producer_vars
    /\ UNCHANGED <<pm_msg, conn_vars, pm_result, exit_code, epoch, fpos, ftell, nrec>>

\* A loop that catches what insert_message raises and goes on to the next
\* line.
HandleLineSwallow(max_raise) ==
    /\ pc = "loop"
    /\ i < complete_count
    /\ \E msg_dict \in {_safe_json_loads(lines[i + 1])} :
       \E processed \in {process_message(msg_dict.v)} :
       IF msg_dict.none \/ processed.none
       THEN /\ i' = i + 1
            /\ UNCHANGED <<pc, lines, complete_count, rows, last_call, nraise, handle>>
       ELSE \E result \in insert_results[engine][table] :
              /\ last_call' = Call("insert_message", FALSE, result)
              /\ IF result = "returned"
                 THEN /\ rows' = Append(rows, Payload(processed.v))
                      /\ i' = i + 1
                      /\ UNCHANGED <<pc, lines, complete_count, nraise, handle>>
                 ELSE /\ nraise < max_raise \/ (~table /\ max_raise > 0)
                      /\ nraise' = IF nraise < max_raise THEN nraise + 1 ELSE nraise
                      /\ i' = i + 1
                      /\ UNCHANGED <<pc, lines, complete_count, rows, handle>>
    /\ UNCHANGED <<last_pos, file_size, engine, table, ncalls>>
    /\ UNCHANGED insert_vars
    /\ UNCHANGED producer_vars
    /\ UNCHANGED <<pm_msg, conn_vars, pm_result, exit_code, epoch, fpos, ftell, nrec>>

\* A loop that moves last_pos past every line as soon as it is handled.
HandleLinePerLine(max_raise) ==
    /\ pc = "loop"
    /\ i < complete_count
    /\ \E msg_dict \in {_safe_json_loads(lines[i + 1])} :
       \E processed \in {process_message(msg_dict.v)} :
       IF msg_dict.none \/ processed.none
       THEN /\ i' = i + 1
            /\ last_pos' = last_pos + EncodedLen(consumed_text(<<lines[i + 1]>>, 1))
            /\ UNCHANGED <<pc, lines, complete_count, rows, last_call, nraise, handle>>
       ELSE \E result \in insert_results[engine][table] :
              /\ last_call' = Call("insert_message", FALSE, result)
              /\ IF result = "returned"
                 THEN /\ rows' = Append(rows, Payload(processed.v))
                      /\ i' = i + 1
                      /\ last_pos' = last_pos + EncodedLen(consumed_text(<<lines[i + 1]>>, 1))
                      /\ UNCHANGED <<pc, lines, complete_count, nraise, handle>>
                 ELSE /\ nraise < max_raise \/ (~table /\ max_raise > 0)
                      /\ nraise' = IF nraise < max_raise THEN nraise + 1 ELSE nraise
                      /\ pc' = "backoff"
                      /\ handle' = "closed"
                      /\ lines' = <<>> /\ complete_count' = 0 /\ i' = 0
                      /\ UNCHANGED <<rows, last_pos>>
    /\ UNCHANGED <<file_size, engine, table, ncalls>>
    /\ UNCHANGED insert_vars
    /\ UNCHANGED producer_vars
    /\ UNCHANGED <<pm_msg, conn_vars, pm_result, exit_code, epoch, fpos, ftell, nrec>>

\* Lines 191-197 for line i of the batch: a rejected line is passed over; a
\* processed message goes to insert_message, which returns with the row
\* written or raises (lines 210-212: logged, sleep, next iteration, with
\* last_pos as it was).  The batch is dropped when the iteration ends.
HandleLineB(max_raise) ==
    /\ pc = "loop"
    /\ i < complete_count
    /\ \E msg_dict \in {_safe_json_loads(lines[i + 1])} :
       \E processed \in {process_message(msg_dict.v)} :
       IF msg_dict.none \/ processed.none
       THEN /\ i' = i + 1
            /\ UNCHANGED <<pc, lines, complete_count, rows, last_call, nraise, handle>>
       ELSE \E result \in insert_results[engine][table] :
              /\ last_call' = Call("insert_message", FALSE, result)
              /\ IF result = "returned"
                 THEN /\ rows' = Append(rows, Payload(processed.v))
                      /\ i' = i + 1
                      /\ UNCHANGED <<pc, lines, complete_count, nraise, handle>>
                 ELSE /\ nraise < max_raise \/ (~table /\ max_raise > 0)
                      /\ nraise' = IF nraise < max_raise THEN nraise + 1 ELSE nraise
                      /\ pc' = "backoff"
                      /\ handle' = "closed"
                      /\ lines' = <<>> /\ complete_count' = 0 /\ i' = 0
                      /\ UNCHANGED rows
    /\ UNCHANGED <<last_pos, file_size, engine, table, ncalls>>
    /\ UNCHANGED insert_vars
    /\ UNCHANGED producer_vars
    /\ UNCHANGED <<pm_msg, conn_vars, pm_result, exit_code, epoch, fpos, ftell, nrec>>

HandleLine == HandleLineB(MaxRaise)

\* A handler that gives up on the error.
PollFailsExits ==
    /\ pc \in {"stat", "read"}
    /\ exists
    /\ nraise < MaxRaise
    /\ nraise' = nraise + 1
    /\ pc' = "exited"
    /\ exit_code' = "1"
    /\ UNCHANGED <<pm_msg, conn_vars, pm_result, epoch, fpos, ftell, nrec, handle>>
    /\ UNCHANGED <<last_call, ncalls>>
    /\ UNCHANGED tail_vars
    /\ UNCHANGED insert_vars
    /\ UNCHANGED store_vars
    /\ UNCHANGED producer_vars

\* exists(), stat(), open() or read() raises (lines 165-178): except
\* Exception (210-212) logs it.
PollFails ==
    /\ pc \in {"stat", "read"}
    /\ exists
    /\ nraise < MaxRaise
    /\ nraise' = nraise + 1
    /\ pc' = "backoff"
    /\ UNCHANGED <<last_call, ncalls>>
    /\ UNCHANGED tail_vars
    /\ UNCHANGED insert_vars
    /\ UNCHANGED store_vars
    /\ UNCHANGED producer_vars
    /\ UNCHANGED aux_vars

\* Line 212: time.sleep(interval_secs) in the handler, then the next
\* iteration.
Backoff ==
    /\ pc = "backoff"
    /\ pc' = "stat"
    /\ UNCHANGED <<last_call, nraise, ncalls>>
    /\ UNCHANGED tail_vars
    /\ UNCHANGED insert_vars
    /\ UNCHANGED store_vars
    /\ UNCHANGED producer_vars
    /\ UNCHANGED aux_vars

\* KeyboardInterrupt.  Inside the try (lines 164-205) it is caught at 207:
\* break, the function and main return.  During the handler's sleep (212)
\* nothing catches it and it ends the process.
Interrupt ==
    /\ pc \in {"stat", "read", "loop", "backoff"}
    /\ pc' = "exited"
    /\ exit_code' = IF pc = "backoff" THEN "KeyboardInterrupt" ELSE "0"
    /\ handle' = IF handle = "open" THEN "closed" ELSE handle
    /\ UNCHANGED <<pm_msg, conn_vars, pm_result, epoch, fpos, ftell, nrec>>
    /\ UNCHANGED <<last_call, nraise, ncalls>>
    /\ UNCHANGED tail_vars
    /\ UNCHANGED insert_vars
    /\ UNCHANGED store_vars
    /\ UNCHANGED producer_vars

\* The same against a store that never makes insert_message raise.
HandleLineOk == HandleLineB(0)

\* last_pos = len(...) where the code has last_pos += len(...).
AdvanceAbsolute ==
    /\ pc = "loop"
    /\ i = complete_count
    /\ last_pos' = EncodedLen(consumed_text(lines, complete_count))
    /\ pc' = "stat"
    /\ handle' = "closed"
    /\ lines' = <<>> /\ complete_count' = 0 /\ i' = 0
    /\ UNCHANGED <<file_size, last_call, nraise, ncalls>>
    /\ UNCHANGED insert_vars
    /\ UNCHANGED store_vars
    /\ UNCHANGED producer_vars
    /\ UNCHANGED <<pm_msg, conn_vars, pm_result, exit_code, epoch, fpos, ftell, nrec>>

\* Lines 199-202: the batch is done: last_pos moves by the encoded length
\* of the complete lines joined by "\n".
Advance ==
    /\ pc = "loop"
    /\ i = complete_count
    /\ last_pos' = last_pos + EncodedLen(consumed_text(lines, complete_count))
    /\ pc' = "stat"
    /\ handle' = "closed"
    /\ lines' = <<>> /\ complete_count' = 0 /\ i' = 0
    /\ UNCHANGED <<file_size, last_call, nraise, ncalls>>
    /\ UNCHANGED insert_vars
    /\ UNCHANGED store_vars
    /\ UNCHANGED producer_vars
    /\ UNCHANGED <<pm_msg, conn_vars, pm_result, exit_code, epoch, fpos, ftell, nrec>>

\* ------------------------------------------------------------------------
\* The self-test of sqlite_consumer_case.py (main), generalised: init_db and
\* insert_message called in any order on sample messages
\* ------------------------------------------------------------------------
Samples ==
    { process_message(json_loads(<<"{", "}">>).v).v,
      process_message(json_loads(<<"{", "a", "}">>).v).v }

InitStore ==
    /\ exists = FALSE /\ file = <<>> /\ pending = <<>>
    /\ eol = <<LF>>
    /\ nlines = 0 /\ ntrunc = 0
    /\ pc = "selftest"
    /\ engine \in {"sqlite", "duckdb"}
    /\ table = FALSE /\ rows = <<>>
    /\ pm_msg = EmptyObject
    /\ InitCommon

\* init_db(test_db, recreate=...): it returns, or it raises before any
\* statement ran, or (recreate) after the DROP.
TestInitDb ==
    /\ pc = "selftest" /\ ins_pc = "idle" /\ ncalls < MaxCalls
    /\ \E recreate \in BOOLEAN, outcome \in {"returned", "raised", "raised_after_drop"} :
         /\ outcome = "raised_after_drop" => recreate
         /\ LET st == IF outcome = "returned" THEN init_db(table, rows, recreate)
                      ELSE init_db_failed(table, rows, outcome = "raised_after_drop") IN
            /\ table' = st.table
            /\ rows' = st.rows
         /\ last_call' = Call("init_db", recreate,
                              IF outcome = "returned" THEN "returned" ELSE "raised")
    /\ ncalls' = ncalls + 1
    /\ UNCHANGED <<pc, engine, nraise>>
    /\ UNCHANGED insert_vars
    /\ UNCHANGED tail_vars
    /\ UNCHANGED producer_vars
    /\ UNCHANGED aux_vars

\* insert_message(sample, test_db)
TestInsert ==
    /\ pc = "selftest" /\ ins_pc = "idle" /\ ncalls < MaxCalls
    /\ \E m \in Samples : EnterInsert(m)
    /\ ncalls' = ncalls + 1
    /\ UNCHANGED <<pc, last_call, nraise>>
    /\ UNCHANGED store_vars
    /\ UNCHANGED tail_vars
    /\ UNCHANGED producer_vars
    /\ UNCHANGED aux_vars

\* insert_message is back, with a return or an exception.
TestInsertDone ==
    /\ pc = "selftest" /\ ins_pc \in {"returned", "raised"}
    /\ last_call' = Call("insert_message", FALSE, ins_pc)
    /\ ins_pc' = "idle"
    /\ UNCHANGED <<attempt, payload, tries, sleeps, last_resp, rows0>>
    /\ UNCHANGED <<pc, nraise, ncalls>>
    /\ UNCHANGED store_vars
    /\ UNCHANGED tail_vars
    /\ UNCHANGED producer_vars
    /\ UNCHANGED aux_vars

\* ------------------------------------------------------------------------
\* process_message on its own
\* ------------------------------------------------------------------------

\* Values of the text fields, of message_length and of sentiment in a parsed
\* object: absent, null, text (blank, padded, numeric or not), numbers.
TextInputs ==
    {Absent, Null, StrVal(<<>>), StrVal(<<" ", "a", " ">>), StrVal(<<"a", "b">>),
     IntVal(5)}
LengthInputs ==
    {Absent, Null, IntVal(-5), IntVal(0), IntVal(3), FloatVal(250),
     FloatVal(-250), StrVal(<<"7">>), StrVal(<<"x">>)}
SentimentInputs ==
    {Absent, Null, FloatVal(87), IntVal(1), StrVal(<<"x">>), StrVal(<<"5">>)}

Messages ==
    { [message |-> m, author |-> a, timestamp |-> t, category |-> c,
       sentiment |-> s, keyword_mentioned |-> k, message_length |-> l] :
        m \in TextInputs, a \in {Absent, StrVal(<<"b">>), IntVal(5)},
        t \in {Absent, StrVal(<<"t">>)}, c \in {Absent, Null},
        s \in SentimentInputs, k \in {Absent, StrVal(<<" ">>)},
        l \in LengthInputs }

InitNorm ==
    /\ exists = FALSE /\ file = <<>> /\ pending = <<>>
    /\ eol = <<LF>>
    /\ nlines = 0 /\ ntrunc = 0
    /\ pc = "normalize"
    /\ engine = "sqlite"
    /\ table = FALSE /\ rows = <<>>
    /\ pm_msg \in Messages
    /\ InitCommon

\* processed = process_message(msg_dict)
Normalize ==
    /\ pc = "normalize"
    /\ pm_result' = process_message(pm_msg)
    /\ pc' = "normalized"
    /\ UNCHANGED <<pm_msg, conn_vars, exit_code, epoch, fpos, ftell, nrec, handle>>
    /\ UNCHANGED <<last_call, nraise, ncalls>>
    /\ UNCHANGED store_vars
    /\ UNCHANGED insert_vars
    /\ UNCHANGED tail_vars
    /\ UNCHANGED <<exists, file, pending, eol, nlines, ntrunc>>

\* ------------------------------------------------------------------------
\* file_consumer_case.py: process_message, consume_messages_from_file, main
\* ------------------------------------------------------------------------

\* process_message (lines 26-47): the text fields as message.get returns
\* them (None for a missing key), float() and int() of the two numbers; any
\* exception gives None.
file_process_message(msg) ==
    IF \/ ConversionRaises(get(msg, "sentiment", FloatVal(0)))
       \/ ConversionRaises(get(msg, "message_length", IntVal(0)))
    THEN NoneVal
    ELSE Some([message |-> get(msg, "message", Null),
               author |-> get(msg, "author", Null),
               timestamp |-> get(msg, "timestamp", Null),
               category |-> get(msg, "category", Null),
               sentiment |-> FloatVal(_coerce_float(get(msg, "sentiment", FloatVal(0)), 0)),
               keyword_mentioned |-> get(msg, "keyword_mentioned", Null),
               message_length |-> IntVal(_coerce_int(get(msg, "message_length", IntVal(0)), 0))])

\* f.readline() with the file at byte offset off: the text up to and
\* including the next terminator, handed over as "\n", or what is left of
\* the file when it holds no terminator; tell is the offset afterwards.
RECURSIVE ReadLineAcc(_, _, _)
ReadLineAcc(rest, off, acc) ==
    IF rest = <<>> THEN [line |-> acc, tell |-> off]
    ELSE IF Head(rest) = LF THEN [line |-> Append(acc, LF), tell |-> off + 1]
    ELSE IF Head(rest) = CR
         THEN IF Len(rest) >= 2 /\ rest[2] = LF
              THEN [line |-> Append(acc, LF), tell |-> off + 2]
              ELSE [line |-> Append(acc, LF), tell |-> off + 1]
    ELSE ReadLineAcc(Tail(rest), off + 1, Append(acc, Head(rest)))

readline(bytes, off) ==
    IF off >= Len(bytes) THEN [line |-> <<>>, tell |-> off]
    ELSE ReadLineAcc(SubSeq(bytes, off + 1, Len(bytes)), off, <<>>)

\* main, lines 132-159: the configuration is read (sys.exit(1) when that
\* raises), the database file is deleted (sys.exit(2)), init_db creates the
\* table (sys.exit(3)); then consume_messages_from_file, with pos = 0.
FileMain ==
    /\ pc = "main"
    /\ \E failed \in {"none", "config", "unlink", "init_db"} :
         /\ pc' = IF failed = "none" THEN "fpoll" ELSE "exited"
         /\ exit_code' = CASE failed = "none" -> exit_code
                           [] failed = "config" -> "1"
                           [] failed = "unlink" -> "2"
                           [] failed = "init_db" -> "3"
         /\ table' = IF failed = "none" THEN TRUE
                     ELSE IF failed = "init_db" THEN FALSE ELSE table
         /\ rows' = IF failed \in {"none", "init_db"} THEN <<>> ELSE rows
         /\ last_call' = CASE failed = "none" -> Call("init_db", FALSE, "returned")
                           [] failed = "init_db" -> Call("init_db", FALSE, "raised")
                           [] OTHER -> last_call
    /\ fpos' = 0
    /\ UNCHANGED <<pm_msg, conn_vars, pm_result, epoch, ftell, nrec, handle>>
    /\ UNCHANGED <<engine, nraise, ncalls>>
    /\ UNCHANGED tail_vars
    /\ UNCHANGED insert_vars
    /\ UNCHANGED producer_vars

\* Lines 77-80: the file is not there: sleep, continue.
FilePollAbsent ==
    /\ pc = "fpoll"
    /\ ~exists
    /\ UNCHANGED vars

\* Lines 82-91: open, seek to the end, tell; pos past the size is reset;
\* seek(pos).
FileOpen ==
    /\ pc = "fpoll"
    /\ exists
    /\ fpos' = IF fpos > Len(file) THEN 0 ELSE fpos
    /\ ftell' = fpos'
    /\ pc' = "freadline"
    /\ UNCHANGED <<pm_msg, conn_vars, pm_result, exit_code, epoch, nrec, handle>>
    /\ UNCHANGED <<last_call, nraise, ncalls>>
    /\ UNCHANGED tail_vars
    /\ UNCHANGED insert_vars
    /\ UNCHANGED store_vars
    /\ UNCHANGED producer_vars

\* Lines 93-112, one pass of the inner loop: readline; at the end of the
\* file pos = f.tell() and the poll is over; a blank line, a line json.loads
\* rejects and a message process_message rejects are passed over; else
\* insert_message, and when it raises (lines 114-118) the poll is over with
\* pos as it was.
FileReadLine ==
    /\ pc = "freadline"
    /\ \E r \in {readline(file, ftell)} :
         IF r.line = <<>>
         THEN /\ fpos' = r.tell
              /\ pc' = "fpoll"
              /\ UNCHANGED <<ftell, rows, last_call, nraise>>
         ELSE \E parsed \in {json_loads(strip(r.line))} :
              \E processed \in {file_process_message(parsed.v)} :
              IF strip(r.line) = <<>> \/ parsed.none \/ processed.none
              THEN /\ ftell' = r.tell
                   /\ UNCHANGED <<pc, fpos, rows, last_call, nraise>>
              ELSE \E result \in insert_results[engine][table] :
                     /\ last_call' = Call("insert_message", FALSE, result)
                     /\ IF result = "returned"
                        THEN /\ rows' = Append(rows, Payload(processed.v))
                             /\ ftell' = r.tell
                             /\ UNCHANGED <<pc, fpos, nraise>>
                        ELSE /\ nraise < MaxRaise
                             /\ nraise' = nraise + 1
                             /\ pc' = "fpoll"
                             /\ UNCHANGED <<fpos, ftell, rows>>
    /\ UNCHANGED <<pm_msg, conn_vars, pm_result, exit_code, epoch, nrec, handle>>
    /\ UNCHANGED <<engine, table, ncalls>>
    /\ UNCHANGED tail_vars
    /\ UNCHANGED insert_vars
    /\ UNCHANGED producer_vars

\* ------------------------------------------------------------------------
\* kafka_consumer_case.py: process_message, consume_messages_from_kafka, main
\* ------------------------------------------------------------------------

\* process_message (lines 42-58) has the text of file_consumer_case's.
kafka_process_message(msg) == file_process_message(msg)

\* record.value, the deserialized object: one without keys, one with a
\* message, one whose sentiment float() rejects.
RecordValues ==
    { EmptyObject,
      [EmptyObject EXCEPT !["message"] = StrVal(<<"a">>)],
      [EmptyObject EXCEPT !["sentiment"] = StrVal(<<"x">>)] }

\* main, lines 136-177: the configuration is read (sys.exit(1) when that
\* raises); a database file that cannot be deleted is kept; init_db
\* (sys.exit(3) when it raises); then consume_messages_from_kafka.
KafkaMain ==
    /\ pc = "main"
    /\ \E failed \in {"none", "config", "init_db"} :
         /\ pc' = IF failed = "none" THEN "kconnect" ELSE "exited"
         /\ exit_code' = CASE failed = "none" -> exit_code
                           [] failed = "config" -> "1"
                           [] failed = "init_db" -> "3"
         /\ table' = IF failed = "none" THEN init_db(table, rows, FALSE).table
                     ELSE IF failed = "init_db"
                          THEN init_db_failed(table, rows, FALSE).table
                          ELSE table
         /\ rows' = IF failed = "none" THEN init_db(table, rows, FALSE).rows
                    ELSE IF failed = "init_db"
                         THEN init_db_failed(table, rows, FALSE).rows
                         ELSE rows
         /\ last_call' = CASE failed = "none" -> Call("init_db", FALSE, "returned")
                           [] failed = "init_db" -> Call("init_db", FALSE, "raised")
                           [] OTHER -> last_call
    /\ UNCHANGED <<pm_msg, conn_vars, pm_result, epoch, fpos, ftell, nrec, handle>>
    /\ UNCHANGED <<engine, nraise, ncalls>>
    /\ UNCHANGED tail_vars
    /\ UNCHANGED insert_vars
    /\ UNCHANGED producer_vars

\* Lines 93-111: create_kafka_consumer (sys.exit(11) when it raises), the
\* topic check (sys.exit(13)).
KafkaConnect ==
    /\ pc = "kconnect"
    /\ \E failed \in {"none", "consumer", "topic"} :
         /\ pc' = IF failed = "none" THEN "kconsume" ELSE "exited"
         /\ exit_code' = CASE failed = "none" -> exit_code
                           [] failed = "consumer" -> "11"
                           [] failed = "topic" -> "13"
         /\ handle' = IF failed = "consumer" THEN handle ELSE "open"
    /\ UNCHANGED <<pm_msg, conn_vars, pm_result, epoch, fpos, ftell, nrec>>
    /\ UNCHANGED <<last_call, nraise, ncalls>>
    /\ UNCHANGED tail_vars
    /\ UNCHANGED insert_vars
    /\ UNCHANGED store_vars
    /\ UNCHANGED producer_vars

\* Lines 113-130, one record of `for record in consumer`: a record that
\* process_message rejects is passed over; else insert_message, and what it
\* raises is logged and raised again (lines 122-124): the consumer is
\* closed, nothing in main catches the exception and the process ends with
\* a traceback.
KafkaRecord ==
    /\ pc = "kconsume"
    /\ nrec < MaxRecords
    /\ nrec' = nrec + 1
    /\ \E value \in RecordValues :
       \E processed \in {kafka_process_message(value)} :
         IF processed.none
         THEN UNCHANGED <<pc, exit_code, rows, last_call, nraise, handle>>
         ELSE \E result \in insert_results[engine][table] :
                /\ last_call' = Call("insert_message", FALSE, result)
                /\ IF result = "returned"
                   THEN /\ rows' = Append(rows, Payload(processed.v))
                        /\ UNCHANGED <<pc, exit_code, nraise, handle>>
                   ELSE /\ nraise < MaxRaise
                        /\ nraise' = nraise + 1
                        /\ pc' = "exited"
                        /\ exit_code' = "Exception"
                        /\ handle' = "closed"
                        /\ UNCHANGED rows
    /\ UNCHANGED <<pm_msg, conn_vars, pm_result, epoch, fpos, ftell>>
    /\ UNCHANGED <<engine, table, ncalls>>
    /\ UNCHANGED tail_vars
    /\ UNCHANGED insert_vars
    /\ UNCHANGED producer_vars

\* An interrupt that leaves the consumer as it is.
KafkaInterruptNoClose ==
    /\ pc = "kconsume"
    /\ pc' = "exited"
    /\ exit_code' = "0"
    /\ UNCHANGED <<pm_msg, conn_vars, pm_result, epoch, fpos, ftell, nrec, handle>>
    /\ UNCHANGED <<last_call, nraise, ncalls>>
    /\ UNCHANGED tail_vars
    /\ UNCHANGED insert_vars
    /\ UNCHANGED store_vars
    /\ UNCHANGED producer_vars

\* Lines 120-121: KeyboardInterrupt in the loop is logged; finally (125-130)
\* closes the consumer; the function and main return.
KafkaInterrupt ==
    /\ pc = "kconsume"
    /\ pc' = "exited"
    /\ exit_code' = "0"
    /\ handle' = "closed"
    /\ UNCHANGED <<pm_msg, conn_vars, pm_result, epoch, fpos, ftell, nrec>>
    /\ UNCHANGED <<last_call, nraise, ncalls>>
    /\ UNCHANGED tail_vars
    /\ UNCHANGED insert_vars
    /\ UNCHANGED store_vars
    /\ UNCHANGED producer_vars

\* processed = process_message(message) in file_consumer_case (line 108).
NormalizeFile ==
    /\ pc = "normalize"
    /\ pm_result' = file_process_message(pm_msg)
    /\ pc' = "fnormalized"
    /\ UNCHANGED <<pm_msg, conn_vars, exit_code, epoch, fpos, ftell, nrec, handle>>
    /\ UNCHANGED <<last_call, nraise, ncalls>>
    /\ UNCHANGED store_vars
    /\ UNCHANGED insert_vars
    /\ UNCHANGED tail_vars
    /\ UNCHANGED producer_vars

\* processed = process_message(record.value) in kafka_consumer_case (line
\* 116).
NormalizeKafka ==
    /\ pc = "normalize"
    /\ pm_result' = kafka_process_message(pm_msg)
    /\ pc' = "knormalized"
    /\ UNCHANGED <<pm_msg, conn_vars, exit_code, epoch, fpos, ftell, nrec, handle>>
    /\ UNCHANGED <<last_call, nraise, ncalls>>
    /\ UNCHANGED store_vars
    /\ UNCHANGED insert_vars
    /\ UNCHANGED tail_vars
    /\ UNCHANGED producer_vars

\* ------------------------------------------------------------------------
\* duckdb_consumer_case.py: the connection cache
\* ------------------------------------------------------------------------

\* What the cache actions leave alone.
others_of_conn ==
    <<producer_vars, pc, tail_vars, insert_vars, store_vars, last_call, nraise,
      ncalls, pm_msg, pm_result, exit_code, epoch, fpos, ftell, nrec, handle>>

InitConn ==
    /\ exists = FALSE /\ file = <<>> /\ pending = <<>>
    /\ eol = <<LF>>
    /\ nlines = 0 /\ ntrunc = 0
    /\ pc = "duckdb"
    /\ engine = "duckdb"
    /\ table = FALSE /\ rows = <<>>
    /\ pm_msg = EmptyObject
    /\ InitCommon

\* conn.execute("SELECT 1;").fetchone() of line 38 does not raise.
HealthCheckPasses(c) ==
    c # 0 /\ connections[c].status = "healthy"

\* conn.close() of line 42, for a cached connection c.
close(c) ==
    IF c = 0 THEN connections
    ELSE [connections EXCEPT ![c].status = "closed"]

\* A _get_conn that hands out the cached connection without checking it.
_get_conn_unchecked(db_path) ==
    /\ pc = "duckdb"
    /\ \E c \in {_CONNECTIONS[db_path]} :
         IF c # 0
         THEN /\ conn' = [db_path |-> db_path, cached |-> c,
                          check |-> IF HealthCheckPasses(c) THEN "passed" ELSE "failed",
                          opened |-> FALSE, result |-> c]
              /\ UNCHANGED <<_CONNECTIONS, connections>>
         ELSE \E connected \in BOOLEAN :
                IF connected
                THEN /\ Len(connections) < MaxConns
                     /\ connections' = Append(connections,
                                              [path |-> db_path, status |-> "healthy"])
                     /\ _CONNECTIONS' = [_CONNECTIONS EXCEPT
                                            ![db_path] = Len(connections) + 1]
                     /\ conn' = [db_path |-> db_path, cached |-> c, check |-> "none",
                                 opened |-> TRUE, result |-> Len(connections) + 1]
                ELSE /\ conn' = [db_path |-> db_path, cached |-> c, check |-> "none",
                                 opened |-> FALSE, result |-> 0]
                     /\ UNCHANGED <<_CONNECTIONS, connections>>
    /\ UNCHANGED others_of_conn

\* _get_conn, lines 32-64.  The cached connection that passes the health
\* check is returned (34-39).  One that fails it is closed (40-45); then, as
\* when nothing is cached, duckdb.connect (49) opens a connection, which is
\* cached and returned (63-64), or raises (the file is locked by another
\* process): the exception leaves _get_conn with the cache as it was.  What
\* the PRAGMAs raise is passed over (53-61).
_get_conn(db_path) ==
    /\ pc = "duckdb"
    /\ \E c \in {_CONNECTIONS[db_path]} :
         IF HealthCheckPasses(c)
         THEN /\ conn' = [db_path |-> db_path, cached |-> c, check |-> "passed",
                          opened |-> FALSE, result |-> c]
              /\ UNCHANGED <<_CONNECTIONS, connections>>
         ELSE \E connected \in BOOLEAN :
              \E check \in {IF c = 0 THEN "none" ELSE "failed"} :
                IF connected
                THEN /\ Len(connections) < MaxConns
                     /\ connections' = Append(close(c),
                                              [path |-> db_path, status |-> "healthy"])
                     /\ _CONNECTIONS' = [_CONNECTIONS EXCEPT
                                            ![db_path] = Len(connections) + 1]
                     /\ conn' = [db_path |-> db_path, cached |-> c, check |-> check,
                                 opened |-> TRUE, result |-> Len(connections) + 1]
                ELSE /\ connections' = close(c)
                     /\ conn' = [db_path |-> db_path, cached |-> c, check |-> check,
                                 opened |-> FALSE, result |-> 0]
                     /\ UNCHANGED _CONNECTIONS
    /\ UNCHANGED others_of_conn

\* A connection stops answering (an error invalidated it) or is closed
\* behind the cache's back.
Invalidate ==
    /\ pc = "duckdb"
    /\ \E c \in 1..Len(connections) :
       \E status \in {"invalid", "closed"} :
         /\ connections[c].status = "healthy"
         /\ connections' = [connections EXCEPT ![c].status = status]
    /\ UNCHANGED <<_CONNECTIONS, conn>>
    /\ UNCHANGED others_of_conn

\* Every call of _get_conn by init_db, insert_message and delete_message.
GetConn == \E db_path \in Paths : _get_conn(db_path)

\* ------------------------------------------------------------------------
\* Specifications
\* ------------------------------------------------------------------------

\* The tailer next to a producer that appends and truncates, the store
\* making insert_message raise at most MaxRaise times.
Next ==
    \/ CreateFile
    \/ AppendLine
    \/ AppendRest
    \/ Truncate
    \/ MainReadConfig
    \/ TailInitDb
    \/ PollAbsent
    \/ Stat
    \/ Read
    \/ HandleLine
    \/ Advance
    \/ Backoff

Spec == Init /\ [][Next]_vars

\* The tailer with everything that can end an iteration or the loop: stat,
\* open and read failing, insert_message raising, KeyboardInterrupt; next to
\* a producer of up to LoopLines lines.
NextLoop ==
    \/ CreateFile
    \/ AppendLineLoop
    \/ AppendRest
    \/ MainReadConfig
    \/ TailInitDb
    \/ PollAbsent
    \/ Stat
    \/ Read
    \/ HandleLine
    \/ Advance
    \/ PollFails
    \/ Backoff
    \/ Interrupt

SpecLoop == Init /\ [][NextLoop]_vars

\* The tailer next to a producer that only appends, up to LongLines lines,
\* every insert_message call returning.
NextAppend ==
    \/ CreateFile
    \/ AppendLineLong
    \/ AppendRest
    \/ MainReadConfig
    \/ TailInitDb
    \/ PollAbsent
    \/ Stat
    \/ Read
    \/ HandleLineOk
    \/ Advance

SpecAppend == Init /\ [][NextAppend]_vars

\* The tailer next to a producer that only appends, the tailer's thread
\* always taking its next step: the loop body runs to its end and every
\* time.sleep returns.
NextLive ==
    \/ CreateFile
    \/ AppendLine
    \/ AppendRest
    \/ MainReadConfig
    \/ TailInitDb
    \/ PollAbsent
    \/ Stat
    \/ Read
    \/ HandleLine
    \/ Advance
    \/ Backoff

\* The steps of the consumer's one thread.
TailerStep ==
    \/ MainReadConfig
    \/ TailInitDb
    \/ Stat
    \/ Read
    \/ HandleLine
    \/ Advance
    \/ Backoff

SpecLive == Init /\ [][NextLive]_vars /\ WF_vars(TailerStep)

\* file_consumer_case next to a producer that only appends, the store making
\* insert_message raise at most MaxRaise times.
NextFile ==
    \/ CreateFile
    \/ AppendLine
    \/ AppendRest
    \/ FileMain
    \/ FilePollAbsent
    \/ FileOpen
    \/ FileReadLine

SpecFile == Init /\ [][NextFile]_vars

\* kafka_consumer_case fed up to MaxRecords records, the store making
\* insert_message raise at most MaxRaise times.
NextKafka ==
    \/ KafkaMain
    \/ KafkaConnect
    \/ KafkaRecord
    \/ KafkaInterrupt

SpecKafka == Init /\ [][NextKafka]_vars

\* The process_message of file_consumer_case and of kafka_consumer_case
\* applied to every message of Messages.
NextNormCase ==
    \/ NormalizeFile
    \/ NormalizeKafka

SpecNormCase == InitNorm /\ [][NextNormCase]_vars

\* The tailer next to a producer whose file comes and goes.
NextAbsent ==
    \/ CreateFile
    \/ AppendLine
    \/ AppendRest
    \/ RemoveFile
    \/ MainReadConfig
    \/ TailInitDb
    \/ PollAbsent
    \/ Stat
    \/ Read
    \/ ReadAbsent
    \/ HandleLine
    \/ Advance
    \/ Backoff

SpecAbsent == Init /\ [][NextAbsent]_vars

\* One of the two ingestion loops that hold a source handle, from the start
\* of its main to its end: the tailer or the Kafka consumer.
NextHandles ==
    \/ NextLoop
    \/ NextKafka

SpecHandles == Init /\ [][NextHandles]_vars

\* The connection cache under calls and invalidations.
NextConn ==
    \/ GetConn
    \/ Invalidate

SpecConn == InitConn /\ [][NextConn]_vars

\* The store functions called by the self-test.
NextStore ==
    \/ TestInitDb
    \/ TestInsert
    \/ InsertTry
    \/ TestInsertDone

SpecStore == InitStore /\ [][NextStore]_vars

\* The same with insert_message running on: a call that has been entered
\* makes its next pass.
SpecStoreLive == InitStore /\ [][NextStore]_vars /\ WF_vars(InsertTry)

\* ------------------------------------------------------------------------
\* What the file holds, read independently of the tailer
\* ------------------------------------------------------------------------

\* The complete lines of the file, L1..Ln: the text before each terminator
\* ("\n", "\r\n" or "\r"); text after the last terminator is no line yet.
RECURSIVE FileLinesAcc(_, _, _)
FileLinesAcc(bytes, cur, acc) ==
    IF bytes = <<>> THEN acc
    ELSE IF Head(bytes) = LF
         THEN FileLinesAcc(Tail(bytes), <<>>, Append(acc, cur))
         ELSE IF Head(bytes) = CR
              THEN IF Len(bytes) >= 2 /\ bytes[2] = LF
                   THEN FileLinesAcc(SubSeq(bytes, 3, Len(bytes)), <<>>, Append(acc, cur))
                   ELSE FileLinesAcc(Tail(bytes), <<>>, Append(acc, cur))
              ELSE FileLinesAcc(Tail(bytes), Append(cur, Head(bytes)), acc)

FileLines(bytes) == FileLinesAcc(bytes, <<>>, <<>>)

\* The offset just after the last terminator byte of the file: where its
\* unterminated last fragment starts.
LastTermEnd(bytes) ==
    LET at == {j \in 1..Len(bytes) : bytes[j] \in {LF, CR}} IN
    IF at = {} THEN 0 ELSE CHOOSE j \in at : \A k \in at : k <= j

\* The bytes the first n complete lines of bytes occupy, terminators included.
RECURSIVE RawSpan(_, _)
RawSpan(bytes, n) ==
    IF n = 0 \/ bytes = <<>> THEN 0
    ELSE IF Head(bytes) = LF THEN 1 + RawSpan(Tail(bytes), n - 1)
    ELSE IF Head(bytes) = CR
         THEN IF Len(bytes) >= 2 /\ bytes[2] = LF
              THEN 2 + RawSpan(SubSeq(bytes, 3, Len(bytes)), n - 1)
              ELSE 1 + RawSpan(Tail(bytes), n - 1)
    ELSE 1 + RawSpan(Tail(bytes), n)

BytesFrom(bytes, pos) ==
    IF pos >= Len(bytes) THEN <<>> ELSE SubSeq(bytes, pos + 1, Len(bytes))

\* A line that parses and normalises; the row it gives.
WellFormed(line) ==
    /\ ~_safe_json_loads(line).none
    /\ ~process_message(_safe_json_loads(line).v).none

RowOf(line) == Payload(process_message(_safe_json_loads(line).v).v)

RECURSIVE RowsOfLines(_)
RowsOfLines(ls) ==
    IF ls = <<>> THEN <<>>
    ELSE IF WellFormed(Head(ls)) THEN <<RowOf(Head(ls))>> \o RowsOfLines(Tail(ls))
         ELSE RowsOfLines(Tail(ls))

ExpectedRows(bytes) == RowsOfLines(FileLines(bytes))

IsPrefix(s, t) == Len(s) <= Len(t) /\ SubSeq(t, 1, Len(s)) = s

Count(seq, x) == Cardinality({j \in 1..Len(seq) : seq[j] = x})

\* The tailer has nothing complete left to read.
CaughtUp == pc = "stat" /\ table /\ CompleteCount(ReadFrom(file, last_pos)) = 0

\* process_message applied to every message of Messages.
NextNorm == Normalize

SpecNorm == InitNorm /\ [][NextNorm]_vars

\* ------------------------------------------------------------------------
\* Properties
\* ------------------------------------------------------------------------

\* C1: with every insert succeeding and no truncation, the rows in the store
\* are exactly the rows of the well-formed lines L1..Ln of the file, in
\* order: at any time a prefix of them, and all of them once the tailer has
\* caught up.
C1_RowsAreLinesInOrder ==
    /\ IsPrefix(rows, ExpectedRows(file))
    /\ CaughtUp => rows = ExpectedRows(file)

\* C2 as stated: without truncation no line is inserted more than once, also
\* when insert_message raises: no row occurs more often in the store than
\* lines giving it occur in the file.
C2_NoLineInsertedTwice ==
    ntrunc = 0 =>
        \A j \in 1..Len(rows) :
            Count(rows, rows[j]) <= Count(ExpectedRows(file), rows[j])

\* C4: the step that ends a batch moves last_pos by exactly the bytes the
\* batch's complete lines occupy in the file, terminators included.
C4_AdvanceIsBytesConsumed ==
    [][(pc = "loop" /\ i = complete_count /\ pc' = "stat" /\ ntrunc = 0)
         => last_pos' - last_pos = RawSpan(BytesFrom(file, last_pos), complete_count)]_vars

\* C5: a poll that sees a smaller size than the poll before it resets
\* last_pos to 0.
C5_ShrinkResetsCursor ==
    [][(pc = "stat" /\ pc' = "read" /\ file_size' < file_size) => last_pos' = 0]_vars

\* C6: every well-formed complete line that lies before last_pos in the
\* current file has a row in the store.
C6_NoAdvancePastUninserted ==
    \A n \in 1..Len(FileLines(file)) :
        (/\ RawSpan(file, n) <= last_pos
         /\ WellFormed(FileLines(file)[n]))
        => \E j \in 1..Len(rows) : rows[j] = RowOf(FileLines(file)[n])

\* C2, amended: within one poll every complete line of the batch goes to
\* insert_message at most once, in arrival order (each new row is the row
\* of line i of the batch, and i then moves on); when insert_message raises,
\* last_pos stays where it was and the batch is read again, so lines of it
\* that were inserted already are inserted again.
C2_AtMostOncePerPoll ==
    /\ [][rows' # rows =>
            /\ pc = "loop" /\ pc' = "loop"
            /\ i < complete_count
            /\ WellFormed(lines[i + 1])
            /\ rows' = Append(rows, RowOf(lines[i + 1]))
            /\ i' = i + 1
            /\ lines' = lines /\ complete_count' = complete_count]_vars
    /\ [][nraise' # nraise =>
            /\ last_pos' = last_pos
            /\ rows' = rows
            /\ pc' = "backoff"]_vars

\* A line of an untruncated file is in the store twice after a raise.
C2_Witness ==
    /\ ntrunc = 0 /\ nraise > 0
    /\ \E j \in 1..Len(rows) :
          Count(rows, rows[j]) > Count(ExpectedRows(file), rows[j])

\* C3: while the producer only appends, the unterminated last fragment of
\* the file is withheld: the lines of a batch are all followed by a
\* terminator in the file, last_pos never enters the fragment, neither
\* before nor with the batch's advance, and no row comes from a fragment.
C3_FragmentWithheld ==
    ntrunc = 0 =>
        /\ last_pos <= LastTermEnd(file)
        /\ pc = "loop" =>
              /\ IsPrefix(consumed_text(lines, complete_count), ReadFrom(file, last_pos))
              /\ last_pos + EncodedLen(consumed_text(lines, complete_count))
                     <= LastTermEnd(file)
        /\ \A j \in 1..Len(rows) : Count(ExpectedRows(file), rows[j]) > 0

\* A batch is in hand whose read ended in an unterminated fragment.
C3_Witness ==
    /\ ntrunc = 0 /\ pc = "loop"
    /\ Len(lines) > complete_count
    /\ i = complete_count

\* C6, amended: last_pos grows only at the end of a batch, when every
\* well-formed line of the batch has its row in the store; and while the
\* file has not been truncated, every well-formed complete line before
\* last_pos has a row.
C6_AdvanceAfterInsert ==
    /\ [][last_pos' > last_pos =>
            /\ pc = "loop" /\ i = complete_count
            /\ \A n \in 1..complete_count :
                  WellFormed(lines[n]) => Count(rows, RowOf(lines[n])) > 0]_vars
    /\ [](ntrunc = 0 => C6_NoAdvancePastUninserted)

\* last_pos lies past a well-formed line, whose row is stored.
C6_Witness ==
    /\ ntrunc = 0
    /\ \E n \in 1..Len(FileLines(file)) :
          /\ RawSpan(file, n) <= last_pos
          /\ WellFormed(FileLines(file)[n])
          /\ Count(rows, RowOf(FileLines(file)[n])) > 0

\* The answers that are a locked/busy condition of the store, and the
\* errors that are not.
LockAnswers == {ErrLocked, ErrBusy, ErrInUse}
OtherErrors == {ErrNoTable, ErrCatalog, ErrOther}

\* The step is one execution of the INSERT, answered by one of answers.
InsertAnswered(answers) ==
    ins_pc = "try" /\ tries' = tries + 1 /\ last_resp' \in answers

\* C7: locked/busy answers to fewer than max_retries + 1 executions do not
\* make insert_message raise and add no row; when the store then accepts,
\* the call returns, and the store holds exactly one row more than when the
\* call began: the message.
C7_RetryThenAccepted ==
    /\ [][(InsertAnswered(LockAnswers) /\ attempt < max_retries)
            => (ins_pc' = "try" /\ attempt' = attempt + 1 /\ rows' = rows)]_vars
    /\ [][InsertAnswered({Accepted}) => ins_pc' = "returned"]_vars
    /\ [](ins_pc = "returned" =>
            /\ last_resp = Accepted
            /\ tries = attempt + 1
            /\ rows = Append(rows0, payload))

\* The store accepted after max_retries - 1 locked/busy answers.
C7_Witness ==
    /\ ins_pc = "returned"
    /\ attempt = max_retries - 1
    /\ Len(rows) = Len(rows0) + 1

\* C8 as stated: against a store that is locked/busy at every attempt,
\* insert_message raises after max_retries executions of the INSERT in
\* total, no row added.
C8_RaisesAfterMaxRetriesAttempts ==
    (ins_pc = "raised" /\ last_resp \in LockAnswers)
        => (tries = max_retries /\ rows = rows0)

\* C8, amended: it raises after max_retries retries, that is after
\* max_retries + 1 executions of the INSERT and max_retries sleeps, no row
\* added.
C8_RaisesAfterRetriesExhausted ==
    (ins_pc = "raised" /\ last_resp \in LockAnswers)
        => /\ attempt = max_retries
           /\ tries = max_retries + 1
           /\ Len(sleeps) = max_retries
           /\ rows = rows0

\* insert_message has raised on a locked/busy answer.
C8_Witness ==
    /\ ins_pc = "raised"
    /\ last_resp \in LockAnswers
    /\ tries > 1

\* C9: an error that is no locked/busy condition is never retried: the
\* execution that meets it ends the call with the exception, without a
\* sleep, a change of the retry counter or a row.
C9_OtherErrorNotRetried ==
    /\ [][InsertAnswered(OtherErrors)
            => /\ ins_pc' = "raised"
               /\ sleeps' = sleeps
               /\ attempt' = attempt
               /\ rows' = rows]_vars
    /\ []((ins_pc = "raised" /\ last_resp \in OtherErrors) =>
            /\ tries = attempt + 1
            /\ Len(sleeps) = attempt
            /\ rows = rows0)

\* insert_message has raised on such an error, met after retries.
C9_Witness ==
    /\ ins_pc = "raised"
    /\ last_resp \in OtherErrors
    /\ attempt > 0

\* The step is a call of init_db(recreate=rc) that returned.
InitDbReturned(rc) ==
    /\ ins_pc' = ins_pc
    /\ ncalls' = ncalls + 1
    /\ last_call' = Call("init_db", rc, "returned")

\* C10: init_db(recreate=False) on a store that has the table leaves table
\* and rows as they are; the store after init_db is the same after a second
\* init_db; init_db(recreate=True) leaves the table present and empty.
C10_InitDbIdempotent ==
    /\ [][(InitDbReturned(FALSE) /\ table) => (table' /\ rows' = rows)]_vars
    /\ [][InitDbReturned(FALSE) => table']_vars
    /\ [][InitDbReturned(TRUE) => (table' /\ rows' = <<>>)]_vars
    /\ [][(InitDbReturned(FALSE) /\ last_call = Call("init_db", FALSE, "returned"))
            => (table' = table /\ rows' = rows)]_vars
    /\ [](LET once == init_db(table, rows, FALSE)
              twice == init_db(once.table, once.rows, FALSE)
          IN twice = once)

\* init_db(recreate=False) has returned on a table that holds rows.
C10_Witness ==
    /\ last_call = Call("init_db", FALSE, "returned")
    /\ rows # <<>>

\* C11: whatever fields the parsed object carries, process_message returns
\* None or a record with exactly the seven keys, the five text fields text,
\* sentiment a float, message_length an int, none null or absent, and no
\* other key.
C11_SevenFieldsNoneNull ==
    (pc = "normalized" /\ ~pm_result.none) =>
        /\ DOMAIN pm_result.v = Keys
        /\ \A f \in Keys : pm_result.v[f].k \notin {"absent", "null"}
        /\ \A f \in Keys \ {"sentiment", "message_length"} : pm_result.v[f].k = "str"
        /\ pm_result.v["sentiment"].k = "float"
        /\ pm_result.v["message_length"].k = "int"

\* A record came out of an object with a null field and absent ones.
C11_Witness ==
    /\ pc = "normalized" /\ ~pm_result.none
    /\ pm_msg["message"].k = "null"
    /\ pm_msg["author"].k = "absent"
    /\ pm_msg["sentiment"].k = "null"

\* The trimmed message text of a parsed object ("" when it carries none).
TrimmedMessage(m) ==
    IF m["message"].k = "str" THEN strip(m["message"].s) ELSE <<>>

\* C12: in the record process_message returns, message_length is the
\* character count of the trimmed message text when the input's
\* message_length is absent or an integer <= 0, and the input's
\* message_length when that is a positive integer.
C12_LengthFromText ==
    (pc = "normalized" /\ ~pm_result.none) =>
        LET l == pm_msg["message_length"] IN
        /\ (l.k = "absent" \/ (l.k = "int" /\ l.n <= 0))
             => pm_result.v["message_length"] = IntVal(Len(TrimmedMessage(pm_msg)))
        /\ (l.k = "int" /\ l.n > 0) => pm_result.v["message_length"] = l

\* The sentiment of a parsed object is no number: absent, null, or text
\* that float() does not accept.
NoNumber(v) ==
    \/ v.k \in {"absent", "null"}
    \/ v.k = "str" /\ \E j \in 1..Len(v.s) : v.s[j] \notin Digits \cup {" "}

\* The five text fields are each absent, null or text.
TextFieldsPlain(m) ==
    \A f \in Keys \ {"sentiment", "message_length"} :
        m[f].k \in {"absent", "null", "str"}

\* C13: a sentiment that is absent, null or no number never makes
\* process_message reject: an object whose text fields are absent, null or
\* text is accepted, with sentiment 0.0; a numeric sentiment is kept as that
\* number.
C13_SentimentDefault ==
    pc = "normalized" =>
        LET s == pm_msg["sentiment"] IN
        /\ (NoNumber(s) /\ TextFieldsPlain(pm_msg)) =>
             /\ ~pm_result.none
             /\ pm_result.v["sentiment"] = FloatVal(0)
        /\ (NoNumber(s) /\ ~pm_result.none) => pm_result.v["sentiment"] = FloatVal(0)
        /\ (s.k = "float" /\ ~pm_result.none) => pm_result.v["sentiment"] = s
        /\ (s.k = "int" /\ ~pm_result.none)
             => pm_result.v["sentiment"] = FloatVal(100 * s.n)

\* An object with a sentiment that is no number was accepted.
C13_Witness ==
    /\ pc = "normalized" /\ ~pm_result.none
    /\ pm_msg["sentiment"] = StrVal(<<"x">>)
    /\ pm_result.v["sentiment"] = FloatVal(0)

\* The places of the steady-state loop of tail_file_realtime.
InLoop(p) == p \in {"stat", "read", "loop", "backoff"}

\* C14: the loop of tail_file_realtime is left only by a KeyboardInterrupt:
\* a step that catches an exception (a failing stat, open or read,
\* insert_message raising) goes to the handler's sleep, from where the next
\* poll is always possible, and a step that leaves the loop catches none.
C14_OnlyInterruptEndsLoop ==
    /\ [][(InLoop(pc) /\ nraise' # nraise) => pc' = "backoff"]_vars
    /\ [][(InLoop(pc) /\ last_call' # last_call) => InLoop(pc')]_vars
    /\ [][(InLoop(pc) /\ ~InLoop(pc'))
            => /\ pc' = "exited"
               /\ exit_code' \in {"0", "KeyboardInterrupt"}
               /\ nraise' = nraise /\ last_call' = last_call]_vars
    /\ [][pc = "backoff" => pc' \in {"backoff", "stat", "exited"}]_vars
    /\ [](pc = "backoff" => ENABLED Backoff)

\* After insert_message raised and after a poll failed, the loop has a
\* batch in hand again.
C14_Witness ==
    /\ pc = "loop"
    /\ nraise > 0
    /\ last_call = Call("insert_message", FALSE, "raised")

\* C16 for consumer_kabore: a configuration that cannot be read and an
\* init_db that raises each end the process, with an outcome that is not the
\* one of a normal exit, and the loop is not entered.
C16_StartupFailuresExit ==
    /\ [][(pc = "main" /\ pc' = "exited") => exit_code' \notin {"running", "0"}]_vars
    /\ [][(pc = "init" /\ last_call' = Call("init_db", FALSE, "raised"))
            => (pc' = "exited" /\ exit_code' \notin {"running", "0"})]_vars

\* C19: last_pos is lowered by one step only, the reset to 0 taken when the
\* size just observed is below last_pos; every other step leaves it as it is
\* or increases it.
C19_CursorMonotone ==
    [][last_pos' < last_pos
         => /\ pc = "stat" /\ pc' = "read"
            /\ file_size' < last_pos
            /\ last_pos' = 0
            /\ epoch' = epoch + 1]_vars

\* A truncation was detected and the cursor has advanced again since.
C19_Witness ==
    /\ epoch > 0
    /\ last_pos > 0

\* C20: a complete line that is rejected causes no store write and no
\* exception, the loop goes on to the next line of the batch, and the
\* advance at the end of the batch takes last_pos past the bytes of the
\* rejected line, terminator included.
C20_RejectedLineSkipped ==
    /\ [][(pc = "loop" /\ i < complete_count /\ ~WellFormed(lines[i + 1]) /\ i' # i)
            => /\ rows' = rows
               /\ nraise' = nraise
               /\ i' = i + 1
               /\ pc' = "loop"]_vars
    /\ [][(pc = "loop" /\ i = complete_count /\ pc' = "stat" /\ ntrunc = 0)
            => \A n \in 1..complete_count :
                 ~WellFormed(lines[n])
                   => last_pos' >= last_pos + RawSpan(BytesFrom(file, last_pos), n)]_vars

\* Line n of the file is complete and well-formed.
LineWritten(n) ==
    /\ Len(FileLines(file)) >= n
    /\ WellFormed(FileLines(file)[n])

\* The store holds the row of line n, as many times at least as the row
\* occurs among lines 1..n.
LinePersisted(n) ==
    LET ls == FileLines(file)
        r == IF Len(ls) >= n THEN RowOf(ls[n]) ELSE NoPayload IN
    /\ Len(ls) >= n
    /\ Count(rows, r) >= Cardinality({j \in 1..n : WellFormed(ls[j]) /\ RowOf(ls[j]) = r})

\* C17: once tail_file_realtime runs, every complete well-formed line of
\* the file is eventually a row of the store.  The file is never truncated
\* and insert_message raises a bounded number of times while the store has
\* its table.
C17_EveryLinePersisted ==
    \A n \in 1..MaxLines :
        (InLoop(pc) /\ LineWritten(n)) ~> LinePersisted(n)

\* A line file_consumer_case takes for a message, and its row.
FileWellFormed(line) ==
    /\ ~json_loads(strip(line)).none
    /\ ~file_process_message(json_loads(strip(line)).v).none

FileRowOf(line) == Payload(file_process_message(json_loads(strip(line)).v).v)

RECURSIVE FileRowsOfLines(_)
FileRowsOfLines(ls) ==
    IF ls = <<>> THEN <<>>
    ELSE IF FileWellFormed(Head(ls))
         THEN <<FileRowOf(Head(ls))>> \o FileRowsOfLines(Tail(ls))
         ELSE FileRowsOfLines(Tail(ls))

\* C18: consume_messages_from_file takes no bytes of a line that has no
\* terminator yet: neither the open file's offset nor pos passes the last
\* terminator of the file; and when insert_message never raised and pos has
\* reached the end of the file, the rows are those of the complete lines,
\* once each and in order.
C18_PartialLineNotLost ==
    /\ pc = "freadline" => ftell <= LastTermEnd(file)
    /\ pc \in {"fpoll", "freadline"} => fpos <= LastTermEnd(file)
    /\ (pc = "fpoll" /\ nraise = 0 /\ fpos = Len(file))
          => rows = FileRowsOfLines(FileLines(file))

\* C15: in consume_messages_from_kafka a record whose handling fails, by
\* process_message rejecting it or by insert_message raising, leaves the
\* loop running: the next record can be taken and the process has not
\* ended.
C15_RecordFailureContained ==
    /\ [][(pc = "kconsume" /\ nrec' # nrec /\ rows' = rows)
            => (pc' = "kconsume" /\ exit_code' = "running")]_vars
    /\ [][(pc = "kconsume" /\ nraise' # nraise)
            => (pc' = "kconsume" /\ exit_code' = "running")]_vars

\* C21: in insert_message the sleeps of a call are as many as the retry
\* counter says; the first is base_sleep and each later one is twice the one
\* before; none comes before the first INSERT, and none after the INSERT
\* whose failure is raised or whose success is returned.
C21_SleepsDouble ==
    /\ Len(sleeps) = attempt
    /\ Len(sleeps) >= 1 => sleeps[1] = base_sleep
    /\ \A j \in 2..Len(sleeps) : sleeps[j] = 2 * sleeps[j - 1]
    /\ tries = 0 => sleeps = <<>>
    /\ ins_pc = "try" => Len(sleeps) = tries
    /\ ins_pc \in {"returned", "raised"} => Len(sleeps) = tries - 1

\* A call that raised after sleeping max_retries times.
C21_Witness ==
    /\ ins_pc = "raised"
    /\ Len(sleeps) = max_retries
    /\ sleeps[max_retries] = 32 * base_sleep

\* int() accepts the message_length of a parsed object (or it is absent).
LengthConverts(m) ==
    \/ m["message_length"].k \in {"absent", "int", "float"}
    \/ m["message_length"].k = "str" /\ IsNumberText(m["message_length"].s)

\* C22: the process_message of file_consumer_case and of kafka_consumer_case
\* returns a record with sentiment 0.0 for a message whose sentiment is
\* absent, null or text that is no number (its message_length being one
\* int() accepts).
C22_CaseSentimentDefault ==
    (pc \in {"fnormalized", "knormalized"}
        /\ NoNumber(pm_msg["sentiment"]) /\ LengthConverts(pm_msg))
    => (~pm_result.none /\ pm_result.v["sentiment"] = FloatVal(0))

\* C23: a poll of tail_file_realtime that finds no file ends nothing and
\* changes nothing: the loop is at its next poll, with last_pos, the store,
\* the count of caught exceptions and the process as they were; and as soon
\* as the file exists the poll can go on to read it.
C23_AbsentSourceWaits ==
    /\ [][(pc = "stat" /\ ~exists)
            => /\ pc' = "stat"
               /\ last_pos' = last_pos
               /\ table' = table /\ rows' = rows
               /\ nraise' = nraise /\ last_call' = last_call
               /\ exit_code' = "running"]_vars
    /\ []((pc = "stat" /\ ~exists) => ENABLED PollAbsent)
    /\ []((pc = "stat" /\ exists) => ENABLED Stat)

\* The tailer polls for a file that is gone after it ingested from it.
C23_Witness ==
    /\ pc = "stat" /\ ~exists
    /\ last_pos > 0
    /\ Len(rows) > 0

\* C24: an interrupt ends tail_file_realtime only between batches and only
\* by the break of its handler: a step that takes the loop to its end is
\* never taken while a batch is being handled (lines read, last_pos not yet
\* moved past them), and it ends the process the way the break does.
C24_InterruptBetweenIterations ==
    [][(InLoop(pc) /\ pc' = "exited")
         => (pc # "loop" /\ exit_code' = "0")]_vars

\* C25: an ingestion loop that ends has released its source handle:
\* every step that ends the consume loop of consume_messages_from_kafka
\* (interrupt or error) leaves the consumer closed, and tail_file_realtime
\* holds an open file only while it handles a batch, so none once its loop
\* has been left.
C25_HandleReleased ==
    /\ [][(pc = "kconsume" /\ pc' = "exited") => handle' = "closed"]_vars
    /\ [][(InLoop(pc) /\ pc' = "exited") => handle' # "open"]_vars
    /\ [](handle = "open" => pc \in {"loop", "kconsume", "exited"})
    /\ []((pc = "exited" /\ exit_code \in {"0", "Exception", "KeyboardInterrupt"})
            => handle # "open")

\* The Kafka loop was interrupted after it stored a record, and its consumer
\* is closed.
C25_Witness ==
    /\ pc = "exited" /\ exit_code = "0"
    /\ nrec > 0 /\ Len(rows) > 0
    /\ handle = "closed"

\* The connections of a path that are not closed.
LiveConnections(p) ==
    {c \in 1..Len(connections) :
        connections[c].path = p /\ connections[c].status # "closed"}

\* C26: the connection cache keeps one reusable connection per path.  A call
\* of _get_conn whose health check passed opened nothing and returned the
\* cached connection; one whose check failed closed the stale connection
\* and, when it returned, opened a new one; what a call returned is what the
\* cache holds for its path (until the next call), and was healthy when
\* returned; a path never has more than one connection that is not closed,
\* and the cached one is of that path.
C26_OneHandlePerPath ==
    /\ [](conn.check = "passed"
            => (~conn.opened /\ conn.result = conn.cached))
    /\ [](conn.check = "failed"
            => /\ connections[conn.cached].status = "closed"
               /\ conn.result # 0 => (conn.opened /\ conn.result # conn.cached))
    /\ [](conn.result # 0 => _CONNECTIONS[conn.db_path] = conn.result)
    /\ [][(conn' # conn /\ conn'.result # 0)
            => connections'[conn'.result].status = "healthy"]_vars
    /\ [][(conn' # conn /\ conn'.opened)
            => Len(connections') = Len(connections) + 1]_vars
    /\ [](\A p \in Paths :
            /\ Cardinality(LiveConnections(p)) <= 1
            /\ _CONNECTIONS[p] # 0 => connections[_CONNECTIONS[p]].path = p
            /\ LiveConnections(p) \subseteq {_CONNECTIONS[p]})

\* A connection went stale, and _get_conn closed it and returned a new one,
\* which the cache now holds.
C26_Witness ==
    /\ conn.check = "failed" /\ conn.opened
    /\ conn.result # conn.cached
    /\ _CONNECTIONS[conn.db_path] = conn.result
    /\ connections[conn.cached].status = "closed"
    /\ connections[conn.result].status = "healthy"

\* C27: last_pos moves once per batch.  It changes only when a poll resets
\* it or when every line of the batch has been handled; the step in which
\* insert_message raises leaves last_pos and the rows already written as
\* they are; and the poll after it reads again from that same last_pos,
\* starting with the first line.
C27_CursorPerBatch ==
    /\ [][last_pos' # last_pos
            => \/ pc = "stat" /\ pc' = "read" /\ last_pos' = 0
               \/ pc = "loop" /\ i = complete_count /\ pc' = "stat"]_vars
    /\ [][(pc = "loop" /\ pc' = "backoff")
            => (last_pos' = last_pos /\ rows' = rows)]_vars
    /\ [][(pc = "read" /\ pc' = "loop")
            => /\ last_pos' = last_pos
               /\ i' = 0
               /\ lines' = splitlines(BytesFrom(file, last_pos))]_vars

\* insert_message raised on the second line of a batch of two: the first
\* line is in the store twice, and last_pos moved only when the batch was
\* handled whole.
C27_Witness ==
    /\ ntrunc = 0 /\ nraise > 0
    /\ pc = "stat" /\ last_pos > 0
    /\ Len(rows) = 3
    /\ rows[1] = rows[2]

\* C28: insert_message terminates whatever the store answers: a call never
\* executes the INSERT more than max_retries + 1 times, never sleeps more
\* than max_retries times, its attempt never exceeds max_retries, and a
\* call that was entered returns or raises.
C28_InsertTerminates ==
    /\ [](/\ tries <= max_retries + 1
          /\ Len(sleeps) <= max_retries
          /\ attempt <= max_retries)
    /\ (ins_pc = "try") ~> (ins_pc \in {"returned", "raised"})

\* The store was busy max_retries times and accepted the last INSERT.
C28_Witness ==
    /\ ins_pc = "returned"
    /\ tries = max_retries + 1
    /\ attempt = max_retries
    /\ Len(sleeps) = max_retries

====
